---- MODULE Spec2Model ----
(***************************************************************************)
(* The retrieval-augmented conversation loop of src/brain.py (main) as a   *)
(* state machine, one action per statement group of the loop body.         *)
(*                                                                         *)
(* Texts are strings; a parsed JSON value is a record [t, v], t its kind.  *)
(* console is what print has written, calls the requests made to the       *)
(* embedding service, the collection, the chat model and the tool, turns   *)
(* the number of turns that came back to input().  pydantic_major is the   *)
(* major version of the installed pydantic, which decides whether a number *)
(* is accepted for a str field.                                            *)
(*                                                                         *)
(* The collaborators answer every request: their network failures are not  *)
(* modelled.  The collection returns the min(n_results, stored) nearest    *)
(* documents, ties in any order.  An exception that main does not catch    *)
(* ends the process: pc = "crashed".                                       *)
(*                                                                         *)
(* Spec is the conversation on a first run, every response of Responses    *)
(* possible; SpecStore is the memory on any run, every vector and every    *)
(* earlier collection possible, the model answering in prose.              *)
(***************************************************************************)
EXTENDS Integers, Sequences, FiniteSets, TLC

VARIABLES pc, user, emb, hits, recalled, assistant, name, args, typed_args,
          result, messages, collection, console, calls, turns, pydantic_major

vars == <<pc, user, emb, hits, recalled, assistant, name, args, typed_args,
          result, messages, collection, console, calls, turns, pydantic_major>>

(* ------------------------------ bounds -------------------------------- *)

\* Non-empty inputs accepted before the model stops reading new ones.
MaxTurns == 2

\* Records already in the "memories" collection when the process starts.
MaxPrior == 5
\* The longest list of documents a query hands to the prompt assembler.
MaxRecalled == 2
\* The longest text the chat model asks the echo tool to repeat.
MaxText == 1

(* --------------------------- program constants ------------------------ *)

\* n_results of collection.query
NResults == 5

\* The prompt's text is never inspected by the loop: one opaque token.
SYSTEM_PROMPT == "<SYSTEM_PROMPT>"

\* Keys of the tool registry.
TOOLS == {"echo"}

(* ------------------------------ inputs -------------------------------- *)

\* Lines the console can deliver to input().
Lines == {"", " ", "a", " b "}

\* Vectors the embedding service can return (one dimension).
Embeddings == {0, 1}

\* The vector of a text under an embedding service that is a function of the
\* text and gives different texts different vectors.
Embedding(text) == IF text = "a" THEN 0 ELSE 1

\* Contents the chat model can return that are not JSON.
ProseResponses == {"hi"}

\* Contents the chat model can return.
Responses ==
  { "hi",
    "{\"name\": \"echo\", \"arguments\": {\"text\": \"a\"}}",
    "{\"name\": \"echo\", \"arguments\": {\"text\": \"a\\\"b\", \"x\": 1}}",
    "{\"name\": \"echo\", \"arguments\": {\"text\": 5}}",
    "{\"name\": \"echo\"}",
    "{\"name\": \"echo\", \"arguments\": [1]}",
    "{\"name\": \"nope\", \"arguments\": {}}",
    "{\"arguments\": {\"text\": \"a\"}}",
    "{\"name\": 7}",
    "{\"name\": [\"echo\"]}",
    "[1]",
    "\"echo\"",
    "5" }

(* ------------------------------- text --------------------------------- *)

\* The character of s at position i, "" past either end.
Ch(s, i) == IF i >= 1 /\ i <= Len(s) THEN SubSeq(s, i, i) ELSE ""

Whitespace == {" ", "\t", "\n", "\r"}

RECURSIVE LStrip(_)
LStrip(s) == IF Ch(s, 1) \in Whitespace THEN LStrip(SubSeq(s, 2, Len(s))) ELSE s

RECURSIVE RStrip(_)
RStrip(s) ==
  IF Ch(s, Len(s)) \in Whitespace THEN RStrip(SubSeq(s, 1, Len(s) - 1)) ELSE s

\* A variant of Strip that leaves the line as it was read.
StripNothing(s) == s

\* str.strip()
Strip(s) == RStrip(LStrip(s))

\* sep.join(seq)
RECURSIVE Join(_, _)
Join(sep, seq) ==
  IF seq = <<>> THEN ""
  ELSE IF Len(seq) = 1 THEN seq[1]
  ELSE seq[1] \o sep \o Join(sep, Tail(seq))

(* ------------------------------- JSON --------------------------------- *)
(* json.loads and json.dumps over the grammar the responses use: objects,  *)
(* arrays, strings with the escapes \" \\ \/ \n \t \r, non-negative        *)
(* integers, null, true, false.  A number's v is its decimal text.         *)

JStr(s) == [t |-> "str", v |-> s]
JNum(s) == [t |-> "num", v |-> s]
JLit(w) == [t |-> w, v |-> ""]
JArr(q) == [t |-> "arr", v |-> q]
JObj(q) == [t |-> "obj", v |-> q]
JNull == JLit("null")

\* json.JSONDecodeError
Fail == [ok |-> FALSE, val |-> JNull, pos |-> 0]
Ok(val, pos) == [ok |-> TRUE, val |-> val, pos |-> pos]

Digits == {"0", "1", "2", "3", "4", "5", "6", "7", "8", "9"}

Unescape(c) ==
  CASE c = "\"" -> "\""
    [] c = "\\" -> "\\"
    [] c = "/" -> "/"
    [] c = "n" -> "\n"
    [] c = "t" -> "\t"
    [] c = "r" -> "\r"
    [] OTHER -> ""

RECURSIVE SkipWs(_, _)
SkipWs(s, i) == IF Ch(s, i) \in Whitespace THEN SkipWs(s, i + 1) ELSE i

\* The string whose opening quote precedes position i; acc is the text so far.
RECURSIVE ScanString(_, _, _)
ScanString(s, i, acc) ==
  LET c == Ch(s, i) IN
  IF c = "" \/ c \in {"\n", "\t", "\r"} THEN Fail
  ELSE IF c = "\"" THEN Ok(JStr(acc), i + 1)
  ELSE IF c = "\\" THEN
    IF Unescape(Ch(s, i + 1)) = "" THEN Fail
    ELSE ScanString(s, i + 2, acc \o Unescape(Ch(s, i + 1)))
  ELSE ScanString(s, i + 1, acc \o c)

RECURSIVE ScanDigits(_, _)
ScanDigits(s, i) == IF Ch(s, i) \in Digits THEN ScanDigits(s, i + 1) ELSE i

ScanNumber(s, i) ==
  LET j == IF Ch(s, i) = "0" THEN i + 1 ELSE ScanDigits(s, i)
  IN  Ok(JNum(SubSeq(s, i, j - 1)), j)

ScanLiteral(s, i, w) ==
  IF i + Len(w) - 1 <= Len(s) /\ SubSeq(s, i, i + Len(w) - 1) = w
  THEN Ok(JLit(w), i + Len(w))
  ELSE Fail

RECURSIVE ParseValue(_, _)
RECURSIVE ParseElements(_, _, _)
RECURSIVE ParseMembers(_, _, _)

\* The elements of an array from position i (after "[" or ","); acc holds
\* the elements read so far.
ParseElements(s, i, acc) ==
  LET e == ParseValue(s, SkipWs(s, i)) IN
  IF ~e.ok THEN Fail
  ELSE LET j == SkipWs(s, e.pos) IN
       IF Ch(s, j) = "," THEN ParseElements(s, j + 1, Append(acc, e.val))
       ELSE IF Ch(s, j) = "]" THEN Ok(JArr(Append(acc, e.val)), j + 1)
       ELSE Fail

\* The members of an object from position i (after "{" or ","); acc holds
\* the key/value pairs read so far, in the order of the text.
ParseMembers(s, i, acc) ==
  LET k == SkipWs(s, i) IN
  IF Ch(s, k) # "\"" THEN Fail
  ELSE LET key == ScanString(s, k + 1, "") IN
       IF ~key.ok THEN Fail
       ELSE LET c == SkipWs(s, key.pos) IN
            IF Ch(s, c) # ":" THEN Fail
            ELSE LET e == ParseValue(s, SkipWs(s, c + 1)) IN
                 IF ~e.ok THEN Fail
                 ELSE LET j == SkipWs(s, e.pos)
                          more == Append(acc, [k |-> key.val.v, v |-> e.val])
                      IN  IF Ch(s, j) = "," THEN ParseMembers(s, j + 1, more)
                          ELSE IF Ch(s, j) = "}" THEN Ok(JObj(more), j + 1)
                          ELSE Fail

ParseValue(s, i) ==
  LET c == Ch(s, i) IN
  CASE c = "\"" -> ScanString(s, i + 1, "")
    [] c = "{" -> IF Ch(s, SkipWs(s, i + 1)) = "}"
                  THEN Ok(JObj(<<>>), SkipWs(s, i + 1) + 1)
                  ELSE ParseMembers(s, i + 1, <<>>)
    [] c = "[" -> IF Ch(s, SkipWs(s, i + 1)) = "]"
                  THEN Ok(JArr(<<>>), SkipWs(s, i + 1) + 1)
                  ELSE ParseElements(s, i + 1, <<>>)
    [] c = "n" -> ScanLiteral(s, i, "null")
    [] c = "t" -> ScanLiteral(s, i, "true")
    [] c = "f" -> ScanLiteral(s, i, "false")
    [] c \in Digits -> ScanNumber(s, i)
    [] OTHER -> Fail

\* json.loads(s): one value, whitespace around it, nothing else.
JsonLoads(s) ==
  LET r == ParseValue(s, SkipWs(s, 1)) IN
  IF r.ok /\ SkipWs(s, r.pos) = Len(s) + 1 THEN r ELSE Fail

\* dict.get(key, default) on a parsed object: the last member named key wins.
RECURSIVE Get(_, _, _)
Get(members, key, default) ==
  IF members = <<>> THEN default
  ELSE IF members[Len(members)].k = key THEN members[Len(members)].v
  ELSE Get(SubSeq(members, 1, Len(members) - 1), key, default)

\* json.dumps of one character of a str
EscapeChar(c) ==
  CASE c = "\"" -> "\\\""
    [] c = "\\" -> "\\\\"
    [] c = "\n" -> "\\n"
    [] c = "\t" -> "\\t"
    [] c = "\r" -> "\\r"
    [] OTHER -> c

RECURSIVE Escape(_)
Escape(s) ==
  IF s = "" THEN "" ELSE EscapeChar(Ch(s, 1)) \o Escape(SubSeq(s, 2, Len(s)))

\* json.dumps of a str
DumpStr(s) == "\"" \o Escape(s) \o "\""

\* A variant of JsonDumps that pastes the strings between quotes as they are.
JsonDumpsUnescaped(n, r) ==
  "{\"tool\": \"" \o n \o "\", \"result\": \"" \o r \o "\"}"

\* json.dumps({"tool": n, "result": r}) for strings n and r
JsonDumps(n, r) ==
  "{\"tool\": " \o DumpStr(n) \o ", \"result\": " \o DumpStr(r) \o "}"

(* --------------------------- tool registry ---------------------------- *)

Missing == [t |-> "missing", v |-> ""]
Typed(text) == [ok |-> TRUE, text |-> text, error |-> ""]
Raise(e) == [ok |-> FALSE, text |-> "", error |-> e]

\* EchoArgs(**a) for the parsed "arguments" value a.  ** needs a mapping;
\* fields the schema does not declare are ignored; text must be a str.
\* pydantic 1 turns a number or a bool into its str(), pydantic 2 rejects it.
EchoArgs(a, major) ==
  IF a.t # "obj" THEN Raise("TypeError")
  ELSE LET f == Get(a.v, "text", Missing) IN
       CASE f.t = "str" -> Typed(f.v)
         [] f.t = "num" /\ major = 1 -> Typed(f.v)
         [] f.t = "true" /\ major = 1 -> Typed("True")
         [] f.t = "false" /\ major = 1 -> Typed("False")
         [] OTHER -> Raise("ValidationError")

\* echo(text)
echo(text) == text

(* ---------------------------- memory store ---------------------------- *)

\* Squared L2, the collection's default distance.
Distance(a, b) == (a - b) * (a - b)

\* The document lists a query for the k records of coll closest to q can
\* return, taken among the records indexed by S: closest first, each list
\* returned for some order of the ties.  Tied records holding the same
\* document give the same list, so one of them stands for all.
RECURSIVE Nearest(_, _, _, _)
Nearest(coll, S, q, k) ==
  IF k = 0 \/ S = {} THEN {<<>>}
  ELSE LET best == {i \in S : \A j \in S :
                      Distance(coll[i].embedding, q) <= Distance(coll[j].embedding, q)}
           pick == {i \in best : \A j \in best :
                      coll[j].document = coll[i].document => i <= j}
       IN  UNION {{<<coll[i].document>> \o r : r \in Nearest(coll, S \ {i}, q, k - 1)} :
                    i \in pick}

\* A variant of Query that returns nothing when asked for more records than
\* the collection holds.
QueryAllOrNothing(coll, q, k) ==
  IF k > Len(coll) THEN {[documents |-> <<<<>>>>]}
  ELSE {[documents |-> <<r>>] : r \in Nearest(coll, DOMAIN coll, q, k)}

\* collection.query(query_embeddings=[q], n_results=k, include=["documents"]):
\* the results it can return, one list of documents for the one query.
Query(coll, q, k) ==
  {[documents |-> <<r>>] : r \in Nearest(coll, DOMAIN coll, q, k)}

\* "\n".join(hits["documents"][0]) if hits["documents"] else ""
Recalled(h) == IF h.documents # <<>> THEN Join("\n", h.documents[1]) ELSE ""

\* A variant of Record that stores a zero vector for every document.
RecordUnembedded(coll, e, doc) ==
  [id |-> Len(coll) + 1, embedding |-> 0, document |-> doc,
   metadata |-> [role |-> "user"]]

\* The record collection.add stores; time_ns ids grow with every add.
Record(coll, e, doc) ==
  [id |-> Len(coll) + 1, embedding |-> e, document |-> doc,
   metadata |-> [role |-> "user"]]

\* n records of earlier runs, each an utterance "a" embedded as 0.
RECURSIVE PriorStore(_)
PriorStore(n) ==
  IF n = 0 THEN <<>>
  ELSE LET before == PriorStore(n - 1) IN Append(before, Record(before, 0, "a"))

\* What earlier runs can have left in the collection.
PriorStores == {PriorStore(n) : n \in 0..MaxPrior}

(* --------------------------- prompt assembly -------------------------- *)

PromptBlock(rec, usr) ==
  "**Most relevant memories**\n" \o rec \o "\n\n" \o "**Current message**\n" \o usr

(* ------------------------------ the loop ------------------------------ *)

\* The state when main reaches its loop, the collection being one of stores.
Start(stores) ==
  /\ pc = "input"
  /\ messages = <<[role |-> "system", content |-> SYSTEM_PROMPT]>>
  /\ collection \in stores
  /\ pydantic_major \in {1, 2}
  /\ user = "" /\ emb = 0 /\ hits = [documents |-> <<>>] /\ recalled = ""
  /\ assistant = "" /\ name = JNull /\ args = JNull
  /\ typed_args = [text |-> ""] /\ result = ""
  /\ console = <<>> /\ calls = <<>> /\ turns = 0

\* A first run: the collection is empty.
Init == Start({<<>>})

\* A later run: the collection holds what earlier runs left.
InitStore == Start(PriorStores)

\* The turn is over: back to input().
NextTurn == pc' = "input" /\ turns' = turns + 1

\* A variant of ReadInput that takes the next line while the tool's reply of
\* the turn before is still to be shown and appended.
ReadInputEager(line) ==
  /\ pc \in {"input", "reply"}
  /\ user' = Strip(line)
  /\ IF user' = "" THEN pc' = pc ELSE turns < MaxTurns /\ pc' = "embed"
  /\ UNCHANGED <<emb, hits, recalled, assistant, name, args, typed_args, result,
                 messages, collection, console, calls, turns, pydantic_major>>

\* user = input("\nYou: ").strip(); if not user: continue
ReadInput(line) ==
  /\ pc = "input"
  /\ user' = Strip(line)
  /\ IF user' = "" THEN pc' = "input" ELSE turns < MaxTurns /\ pc' = "embed"
  /\ UNCHANGED <<emb, hits, recalled, assistant, name, args, typed_args, result,
                 messages, collection, console, calls, turns, pydantic_major>>

\* emb = await client.embeddings.create(...)
Embed(e) ==
  /\ pc = "embed"
  /\ emb' = e
  /\ calls' = Append(calls, "embed")
  /\ pc' = "add"
  /\ UNCHANGED <<user, hits, recalled, assistant, name, args, typed_args, result,
                 messages, collection, console, turns, pydantic_major>>

\* A variant of Remember that skips an input the collection already holds.
RememberOnlyNew ==
  /\ pc = "add"
  /\ IF \E i \in DOMAIN collection : collection[i].document = user
     THEN UNCHANGED <<collection, calls>>
     ELSE /\ collection' = Append(collection, Record(collection, emb, user))
          /\ calls' = Append(calls, "add")
  /\ pc' = "query"
  /\ UNCHANGED <<user, emb, hits, recalled, assistant, name, args, typed_args,
                 result, messages, console, turns, pydantic_major>>

\* A variant of Remember that writes every record under one id, so that the
\* new record takes the place of the old.
RememberOverwriting ==
  /\ pc = "add"
  /\ collection' = <<Record(<<>>, emb, user)>>
  /\ calls' = Append(calls, "add")
  /\ pc' = "query"
  /\ UNCHANGED <<user, emb, hits, recalled, assistant, name, args, typed_args,
                 result, messages, console, turns, pydantic_major>>

\* collection.add(ids=..., embeddings=..., documents=[user], metadatas=...)
Remember ==
  /\ pc = "add"
  /\ collection' = Append(collection, Record(collection, emb, user))
  /\ calls' = Append(calls, "add")
  /\ pc' = "query"
  /\ UNCHANGED <<user, emb, hits, recalled, assistant, name, args, typed_args,
                 result, messages, console, turns, pydantic_major>>

\* hits = collection.query(...); recalled = ...
Recall ==
  /\ pc = "query"
  /\ \E h \in Query(collection, emb, NResults) :
       /\ hits' = h
       /\ recalled' = Recalled(h)
  /\ calls' = Append(calls, "query")
  /\ pc' = "assemble"
  /\ UNCHANGED <<user, emb, assistant, name, args, typed_args, result, messages,
                 collection, console, turns, pydantic_major>>

\* A variant of Assemble that leaves the append for after the model's answer.
AssembleLate ==
  /\ pc = "assemble"
  /\ pc' = "chat"
  /\ UNCHANGED <<user, emb, hits, recalled, assistant, name, args, typed_args,
                 result, messages, collection, console, calls, turns,
                 pydantic_major>>

\* A variant of Assemble that appends the raw input as well as the block.
AssembleWithRaw ==
  /\ pc = "assemble"
  /\ messages' = messages \o
                   <<[role |-> "user", content |-> user],
                     [role |-> "user", content |-> PromptBlock(recalled, user)]>>
  /\ pc' = "chat"
  /\ UNCHANGED <<user, emb, hits, recalled, assistant, name, args, typed_args,
                 result, collection, console, calls, turns, pydantic_major>>

\* messages.append({"role": "user", "content": prompt_block})
Assemble ==
  /\ pc = "assemble"
  /\ messages' = Append(messages,
                        [role |-> "user", content |-> PromptBlock(recalled, user)])
  /\ pc' = "chat"
  /\ UNCHANGED <<user, emb, hits, recalled, assistant, name, args, typed_args,
                 result, collection, console, calls, turns, pydantic_major>>

\* assistant = await chat(messages)
Chat(content) ==
  /\ pc = "chat"
  /\ assistant' = content
  /\ calls' = Append(calls, "chat")
  /\ pc' = "interpret"
  /\ UNCHANGED <<user, emb, hits, recalled, name, args, typed_args, result,
                 messages, collection, console, turns, pydantic_major>>

\* print(label, text)
Show(label, text) == console' = Append(console, [label |-> label, text |-> text])

\* A variant of AppendAssistant that writes over the last message.
AppendAssistantOverwriting ==
  messages' = [messages EXCEPT ![Len(messages)] =
                 [role |-> "assistant", content |-> assistant]]

\* messages.append({"role": "assistant", "content": assistant.content})
AppendAssistant ==
  messages' = Append(messages, [role |-> "assistant", content |-> assistant])

\* What `name not in TOOLS` does: a list or a dict cannot be hashed.
Hashable(v) == v.t \notin {"arr", "obj"}
InTools(v) == v.t = "str" /\ v.v \in TOOLS

\* payload = json.loads(assistant.content) ... if name not in TOOLS: ...
Interpret ==
  /\ pc = "interpret"
  /\ LET payload == JsonLoads(assistant) IN
     IF ~payload.ok THEN
       /\ Show("Assistant:", assistant)
       /\ AppendAssistant
       /\ NextTurn
       /\ UNCHANGED <<name, args>>
     ELSE IF payload.val.t # "obj" THEN
       \* payload.get: AttributeError, uncaught
       /\ pc' = "crashed"
       /\ UNCHANGED <<name, args, messages, console, turns>>
     ELSE
       /\ name' = Get(payload.val.v, "name", JNull)
       /\ args' = Get(payload.val.v, "arguments", JObj(<<>>))
       /\ IF ~Hashable(name') THEN
            \* name not in TOOLS: TypeError, uncaught
            /\ pc' = "crashed"
            /\ UNCHANGED <<messages, console, turns>>
          ELSE IF ~InTools(name') THEN
            /\ Show("Assistant (invalid tool):", assistant)
            /\ AppendAssistant
            /\ NextTurn
          ELSE
            /\ pc' = "validate"
            /\ UNCHANGED <<messages, console, turns>>
  /\ UNCHANGED <<user, emb, hits, recalled, assistant, typed_args, result,
                 collection, calls, pydantic_major>>

\* A variant of OnArgError that also records the rejected response.
OnArgErrorAppending(e) ==
  /\ Show("Arg error:", e)
  /\ AppendAssistant
  /\ NextTurn
  /\ UNCHANGED typed_args

\* A variant of OnArgError that lets the exception through.
OnArgErrorRaising(e) ==
  /\ pc' = "crashed"
  /\ UNCHANGED <<console, turns, typed_args, messages>>

\* A variant of OnArgError without the `continue`: the tool runs on whatever
\* typed_args holds.
OnArgErrorProceeding(e) ==
  /\ Show("Arg error:", e)
  /\ pc' = "run"
  /\ UNCHANGED <<turns, typed_args, messages>>

\* except Exception as e: print("Arg error:", e); continue
OnArgError(e) ==
  /\ Show("Arg error:", e)
  /\ NextTurn
  /\ UNCHANGED <<typed_args, messages>>

\* schema, fn = TOOLS[name]; try: typed_args = schema(**args) except ...
Validate ==
  /\ pc = "validate"
  /\ LET r == EchoArgs(args, pydantic_major) IN
     IF r.ok THEN
       /\ typed_args' = [text |-> r.text]
       /\ pc' = "run"
       /\ UNCHANGED <<console, turns, messages>>
     ELSE OnArgError(r.error)
  /\ UNCHANGED <<user, emb, hits, recalled, assistant, name, args, result,
                 collection, calls, pydantic_major>>

\* result = await fn(**typed_args.dict())
RunTool ==
  /\ pc = "run"
  /\ result' = echo(typed_args.text)
  /\ calls' = Append(calls, "tool")
  /\ pc' = "reply"
  /\ UNCHANGED <<user, emb, hits, recalled, assistant, name, args, typed_args,
                 messages, collection, console, turns, pydantic_major>>

\* A variant of ToolMessages with the two messages in the other order.
ToolMessagesSwapped(raw, n, res) ==
  <<[role |-> "tool", name |-> n, content |-> JsonDumps(n, res)],
    [role |-> "assistant", content |-> raw]>>

\* A variant of ToolMessages that leaves out the assistant's tool call.
ToolMessagesToolOnly(raw, n, res) ==
  <<[role |-> "tool", name |-> n, content |-> JsonDumps(n, res)]>>

\* The two messages messages.extend adds after a tool has run.
ToolMessages(raw, n, res) ==
  <<[role |-> "assistant", content |-> raw],
    [role |-> "tool", name |-> n, content |-> JsonDumps(n, res)]>>

\* tool_reply = json.dumps(...); print(...); messages.extend([...])
Reply ==
  /\ pc = "reply"
  /\ Show("Tool result:", result)
  /\ messages' = messages \o ToolMessages(assistant, name.v, result)
  /\ NextTurn
  /\ UNCHANGED <<user, emb, hits, recalled, assistant, name, args, typed_args,
                 result, collection, calls, pydantic_major>>

\* The conversation: any line, any response; the embedding service is a
\* function of the text.
Next ==
  \/ \E line \in Lines : ReadInput(line)
  \/ \E e \in {Embedding(user)} : Embed(e)
  \/ Remember
  \/ Recall
  \/ Assemble
  \/ \E content \in Responses : Chat(content)
  \/ Interpret
  \/ Validate
  \/ RunTool
  \/ Reply

Spec == Init /\ [][Next]_vars

\* The memory: any line, any vector from the embedding service, any earlier
\* collection; the chat model answers in prose.
NextStore ==
  \/ \E line \in Lines : ReadInput(line)
  \/ \E e \in Embeddings : Embed(e)
  \/ Remember
  \/ Recall
  \/ Assemble
  \/ \E content \in ProseResponses : Chat(content)
  \/ Interpret

SpecStore == InitStore /\ [][NextStore]_vars

\* Every sequence over S of length at most n.
SeqsUpTo(S, n) == UNION {[1..k -> S] : k \in 0..n}

\* What collection.query can hand back as hits: no result list at all, or one
\* list of up to MaxRecalled documents, the empty list included.
Documents == {"a", "b"}
AnyHits ==
  {[documents |-> <<>>]} \cup
  {[documents |-> <<r>>] : r \in SeqsUpTo(Documents, MaxRecalled)}

\* The prompt assembler on its own: the first turn just after the query, for
\* any input and any hits.
InitAssemble ==
  /\ pc = "assemble"
  /\ messages = <<[role |-> "system", content |-> SYSTEM_PROMPT]>>
  /\ user \in {Strip(line) : line \in Lines} \ {""}
  /\ emb = Embedding(user)
  /\ collection = <<Record(<<>>, emb, user)>>
  /\ hits \in AnyHits
  /\ recalled = Recalled(hits)
  /\ pydantic_major \in {1, 2}
  /\ assistant = "" /\ name = JNull /\ args = JNull
  /\ typed_args = [text |-> ""] /\ result = ""
  /\ console = <<>> /\ calls = <<"embed", "add", "query">> /\ turns = 0

\* The rest of that turn, answered in prose.
NextAssemble ==
  \/ Assemble
  \/ \E content \in ProseResponses : Chat(content)
  \/ Interpret

SpecAssemble == InitAssemble /\ [][NextAssemble]_vars

\* Every text of at most n characters, quotes, backslashes and newlines
\* among them.
Alphabet == {"a", "\"", "\\", "\n"}
RECURSIVE Texts(_)
Texts(n) ==
  IF n = 0 THEN {""}
  ELSE Texts(n - 1) \cup {t \o c : t \in Texts(n - 1), c \in Alphabet}

\* The response that asks for the echo of t.
EchoCall(t) ==
  "{\"name\": \"echo\", \"arguments\": {\"text\": " \o DumpStr(t) \o "}}"
EchoResponses == {EchoCall(t) : t \in Texts(MaxText)}

\* The tool: the user says "a" and the chat model answers every turn with a
\* call of echo, on any text.
NextEcho ==
  \/ \E line \in {"a"} : ReadInput(line)
  \/ \E e \in {Embedding(user)} : Embed(e)
  \/ Remember
  \/ Recall
  \/ Assemble
  \/ \E content \in EchoResponses : Chat(content)
  \/ Interpret
  \/ Validate
  \/ RunTool
  \/ Reply

SpecEcho == Init /\ [][NextEcho]_vars

(* ======================== properties of the loop ====================== *)

IsPrefix(p, q) == Len(p) <= Len(q) /\ SubSeq(q, 1, Len(p)) = p

Last(q) == q[Len(q)]

RoleCount(r) == Cardinality({i \in DOMAIN messages : messages[i].role = r})

\* The position of the k-th user message, and the messages of the k-th turn:
\* from its user message up to the next user message or the end.
UserPositions == {i \in DOMAIN messages : messages[i].role = "user"}
TurnStart(k) ==
  CHOOSE i \in UserPositions : Cardinality({j \in UserPositions : j < i}) = k - 1
TurnEnd(k) ==
  IF k = Cardinality(UserPositions) THEN Len(messages) ELSE TurnStart(k + 1) - 1
TurnSize(k) == TurnEnd(k) - TurnStart(k) + 1

\* C1: the transcript always begins with a system message, holds exactly one
\* system message, and every step leaves the earlier transcript as a prefix
\* of the later one: messages are only appended.
C1_TranscriptAppendOnly ==
  /\ messages[1].role = "system"
  /\ RoleCount("system") = 1
  /\ [][/\ messages'[1].role = "system"
        /\ RoleCount("system")' = 1
        /\ IsPrefix(messages, messages')]_vars

\* Two turns are over and the transcript holds all four roles.
C1_Witness ==
  /\ pc = "input" /\ turns = 2
  /\ RoleCount("tool") >= 1 /\ RoleCount("assistant") = 2 /\ RoleCount("user") = 2

\* C2 as claimed: when the loop awaits input after N completed turns, every
\* one of the N turns has added exactly 2 or exactly 3 messages.
C2_EveryTurnAddsTwoOrThree ==
  pc = "input" =>
    /\ Cardinality(UserPositions) = turns
    /\ \A k \in 1..turns : TurnSize(k) \in {2, 3}

\* C2 amended: when the loop awaits input after N completed turns, the
\* transcript is the system message followed by the N turns' messages, and
\* the k-th turn has added exactly 1 message (its user prompt) when it ended
\* in an argument error, exactly 2 (user prompt, assistant) when the response
\* was displayed as plain text or as an invalid tool, and exactly 3 (user
\* prompt, assistant, tool) when a tool ran.
C2_TurnAddsOneTwoOrThree ==
  pc = "input" =>
    /\ Cardinality(UserPositions) = turns
    /\ Len(console) = turns
    /\ turns > 0 => TurnStart(1) = 2
    /\ \A k \in 1..turns :
         TurnSize(k) = CASE console[k].label = "Arg error:" -> 1
                         [] console[k].label = "Tool result:" -> 3
                         [] OTHER -> 2

\* Two turns are over: one ended in an argument error, the other ran a tool.
C2_Witness ==
  /\ pc = "input" /\ turns = 2
  /\ console[1].label = "Arg error:" /\ console[2].label = "Tool result:"
  /\ Len(messages) = 5

\* A response that names a registered tool with arguments the schema accepts.
ValidToolCall(content, major) ==
  LET r == JsonLoads(content) IN
  /\ r.ok /\ r.val.t = "obj"
  /\ InTools(Get(r.val.v, "name", JNull))
  /\ EchoArgs(Get(r.val.v, "arguments", JObj(<<>>)), major).ok

\* C3: after a response that names a registered tool with valid arguments,
\* nothing is appended until the tool has run; then the turn appends the
\* assistant message holding the raw response and, right after it, the tool
\* message holding the tool's name and the serialized {tool, result}, and the
\* loop awaits the next input.
C3_ToolCallAppendsAssistantThenTool ==
  /\ [][pc = "interpret" /\ ValidToolCall(assistant, pydantic_major) =>
          pc' = "validate" /\ messages' = messages]_vars
  /\ [][pc = "validate" /\ ValidToolCall(assistant, pydantic_major) =>
          pc' = "run" /\ messages' = messages]_vars
  /\ [][pc = "run" => pc' = "reply" /\ messages' = messages
                      /\ Last(calls') = "tool"]_vars
  /\ [][pc = "reply" =>
          /\ pc' = "input"
          /\ Len(messages') = Len(messages) + 2
          /\ IsPrefix(messages, messages')
          /\ messages'[Len(messages) + 1] =
               [role |-> "assistant", content |-> assistant]
          /\ LET m == Last(messages')
                 parsed == JsonLoads(m.content)
             IN  /\ m.role = "tool" /\ m.name = name.v /\ m.name \in TOOLS
                 /\ parsed.ok /\ parsed.val.t = "obj" /\ Len(parsed.val.v) = 2
                 /\ parsed.val.v[1] = [k |-> "tool", v |-> JStr(m.name)]
                 /\ parsed.val.v[2] = [k |-> "result", v |-> JStr(result)]]_vars

\* The echo scenario: the transcript ends with the raw tool call and the
\* tool message {"tool": "echo", "result": "a"}.
C3_Witness ==
  /\ pc = "input" /\ Len(messages) >= 4
  /\ messages[Len(messages) - 1] =
       [role |-> "assistant",
        content |-> "{\"name\": \"echo\", \"arguments\": {\"text\": \"a\"}}"]
  /\ Last(messages) =
       [role |-> "tool", name |-> "echo",
        content |-> "{\"tool\": \"echo\", \"result\": \"a\"}"]

\* The class the interpreter's contract gives a response content: PlainText
\* when it does not parse, ToolCall when it parses to an object whose name is
\* a registered tool, InvalidTool otherwise.
SpecClass(content) ==
  LET r == JsonLoads(content) IN
  IF ~r.ok THEN "PlainText"
  ELSE IF r.val.t = "obj" /\ InTools(Get(r.val.v, "name", JNull)) THEN "ToolCall"
  ELSE "InvalidTool"

\* C4: a response that is PlainText (does not parse) or InvalidTool (parses,
\* but its name is absent or not a registered tool) is displayed, adds exactly
\* one assistant message holding the raw response and no tool message, runs
\* no tool, and the loop awaits the next input.
C4_PlainOrInvalidAppendsOneAssistant ==
  [][pc = "interpret" /\ SpecClass(assistant) \in {"PlainText", "InvalidTool"} =>
       /\ pc' = "input"
       /\ messages' = Append(messages, [role |-> "assistant", content |-> assistant])
       /\ Len(console') = Len(console) + 1
       /\ Last(console').text = assistant
       /\ calls' = calls]_vars

\* C5: when the response names a registered tool and its arguments fail
\* validation, the error is displayed, the tool is not run, the transcript is
\* left as it was (no assistant and no tool message) and the loop awaits the
\* next input.
C5_ArgErrorAppendsNothing ==
  [][/\ pc = "validate"
     /\ SpecClass(assistant) = "ToolCall"
     /\ ~ValidToolCall(assistant, pydantic_major)
     => /\ pc' = "input"
        /\ turns' = turns + 1
        /\ messages' = messages
        /\ calls' = calls
        /\ Len(console') = Len(console) + 1
        /\ Last(console').label = "Arg error:"]_vars

\* A turn has ended in an argument error: the transcript ends with the
\* turn's user message and no tool has ever run.
C5_Witness ==
  /\ pc = "input" /\ turns >= 1
  /\ Last(console).label = "Arg error:"
  /\ Last(messages).role = "user"
  /\ \A i \in DOMAIN calls : calls[i] # "tool"

Adds == Cardinality({i \in DOMAIN calls : calls[i] = "add"})

Range(q) == {q[i] : i \in DOMAIN q}

\* Every turn started by a non-empty input has added exactly one record, the
\* user's text with the embedding just computed.
OneRecordPerTurn ==
  /\ pc \in {"input", "embed", "add"} => Adds = turns
  /\ pc \notin {"input", "embed", "add"} =>
       /\ Adds = turns + 1
       /\ Last(collection).document = user
       /\ Last(collection).embedding = emb
       /\ Last(collection).metadata = [role |-> "user"]

\* The records stored before the turn's own that lie at distance zero from
\* the turn's embedding.
ExactTies ==
  {i \in 1..(Len(collection) - 1) : Distance(collection[i].embedding, emb) = 0}

\* C6 as claimed: every turn adds exactly one record, and the turn's recall
\* (its own embedding as the query, k = 5) returns that record's document,
\* whatever the collection held before.
C6_SelfRecallAlways ==
  /\ OneRecordPerTurn
  /\ pc = "assemble" => user \in Range(hits.documents[1])

\* C6 amended: every turn adds exactly one record, and the turn's recall
\* returns that record's document whenever fewer than k = 5 other stored
\* records lie at distance zero from its embedding; with k or more such ties
\* the store's tie-break decides.
C6_SelfRecallUnlessTied ==
  /\ OneRecordPerTurn
  /\ pc = "assemble" /\ Cardinality(ExactTies) < NResults =>
       user \in Range(hits.documents[1])

\* The recall returned the turn's own document from a collection that holds
\* more than k records, four of them tied with it.
C6_Witness ==
  /\ pc = "assemble"
  /\ Len(collection) > NResults
  /\ Cardinality(ExactTies) = NResults - 1
  /\ user = "b"
  /\ user \in Range(hits.documents[1])

IsBlank(s) == \A i \in 1..Len(s) : Ch(s, i) \in Whitespace

\* C7: an empty or whitespace-only line leaves the loop awaiting input with
\* nothing done: no request to a collaborator, nothing displayed, transcript
\* and collection unchanged; any other line starts a turn.
C7_EmptyInputDoesNothing ==
  [][pc = "input" =>
       IF IsBlank(user')
       THEN /\ pc' = "input"
            /\ UNCHANGED <<messages, collection, calls, console, turns, emb,
                           hits, recalled, assistant>>
       ELSE pc' = "embed"]_vars

\* An empty line was read after a completed turn and the loop still awaits
\* input.
C7_Witness == pc = "input" /\ user = "" /\ turns = 1

\* C8: validation of echo's arguments rejects a call whose text is a number
\* or is missing (an argument error is displayed and the tool does not run)
\* and accepts a call whose text is a string; the tool runs only when text
\* was a string.
C8_NumberRejectedStringAccepted ==
  [][pc = "validate" /\ args.t = "obj" =>
       LET f == Get(args.v, "text", Missing) IN
       /\ f.t = "str" => pc' = "run" /\ console' = console
       /\ f.t \in {"num", "missing"} =>
            /\ pc' = "input"
            /\ Last(console').label = "Arg error:"
            /\ calls' = calls
       /\ pc' = "run" => f.t = "str"]_vars

Count(q, d) == Cardinality({i \in DOMAIN q : q[i] = d})

Min(a, b) == IF a <= b THEN a ELSE b

C10_NoResponseEndsTheLoop ==
  /\ \A c \in Responses : SpecClass(c) \in {"PlainText", "InvalidTool", "ToolCall"}
  /\ pc # "crashed"

\* A request to a collaborator or a tool goes out in this step.
Issued(c) == calls' = Append(calls, c)

\* A message is appended to the transcript in this step.
Appended == Len(messages') > Len(messages)

\* C11: a tool is invoked only after, in the same turn, its name was found in
\* the registry and the schema accepted the arguments, and it is invoked with
\* the validated arguments; a turn invokes at most one tool.
C11_ToolRunsOnlyOnValidatedArgs ==
  [][Issued("tool") =>
       LET payload == JsonLoads(assistant) IN
       /\ Last(calls) = "chat"
       /\ payload.ok /\ payload.val.t = "obj"
       /\ name = Get(payload.val.v, "name", JNull)
       /\ args = Get(payload.val.v, "arguments", JObj(<<>>))
       /\ InTools(name)
       /\ EchoArgs(args, pydantic_major).ok
       /\ typed_args = [text |-> EchoArgs(args, pydantic_major).text]
       /\ result' = echo(typed_args.text)]_vars

\* The second turn has run the tool, after a first turn whose arguments were
\* rejected.
C11_Witness ==
  /\ pc = "reply" /\ turns = 1
  /\ Last(calls) = "tool"
  /\ Last(console).label = "Arg error:"

\* C12: a turn's steps come in one order: embed the input, store the record,
\* query the store, assemble the prompt and append the user message, call the
\* model, interpret the response, then display and append (running the tool
\* first on a tool call).  The record is in the store before the recall, and
\* the user message is in the transcript when the model is called.
C12_TurnStepsInOrder ==
  [][/\ Issued("embed") => calls = <<>> \/ Last(calls) \in {"chat", "tool"}
     /\ Issued("add") =>
          /\ Last(calls) = "embed"
          /\ Len(collection') = Len(collection) + 1
     /\ Issued("query") =>
          /\ Last(calls) = "add"
          /\ collection # <<>>
          /\ Last(collection).document = user
          /\ Last(collection).embedding = emb
          /\ recalled' = Recalled(hits')
     /\ (Appended /\ Last(messages').role = "user") =>
          /\ Last(calls) = "query"
          /\ Last(messages').content = PromptBlock(recalled, user)
     /\ Issued("chat") =>
          /\ Last(calls) = "query"
          /\ messages' = messages
          /\ Last(messages) = [role |-> "user",
                               content |-> PromptBlock(recalled, user)]
     /\ Issued("tool") =>
          /\ Last(calls) = "chat"
          /\ messages' = messages /\ console' = console
     /\ (Appended /\ Last(messages').role = "assistant") =>
          /\ Last(calls) = "chat"
          /\ Last(messages').content = assistant
          /\ Len(console') = Len(console) + 1
     /\ (Appended /\ Last(messages').role = "tool") =>
          /\ Last(calls) = "tool"
          /\ Last(console') = [label |-> "Tool result:", text |-> result]
     /\ console' # console => calls # <<>> /\ Last(calls) \in {"chat", "tool"}
    ]_vars

\* A tool call turn has run to its end after an earlier turn.
C12_Witness ==
  /\ pc = "input" /\ turns = 2
  /\ SubSeq(calls, Len(calls) - 4, Len(calls)) =
       <<"embed", "add", "query", "chat", "tool">>
  /\ Last(messages).role = "tool"

\* The least position from i on at which sub occurs in s, or 0.
RECURSIVE FindFrom(_, _, _)
FindFrom(s, sub, i) ==
  IF i + Len(sub) - 1 > Len(s) THEN 0
  ELSE IF SubSeq(s, i, i + Len(sub) - 1) = sub THEN i
  ELSE FindFrom(s, sub, i + 1)

\* The position after the documents, found in s one after the other from i
\* on, or 0 when some document is not found.
RECURSIVE AfterAll(_, _, _)
AfterAll(s, docs, i) ==
  IF docs = <<>> THEN i
  ELSE LET j == FindFrom(s, Head(docs), i) IN
       IF j = 0 THEN 0 ELSE AfterAll(s, Tail(docs), j + Len(Head(docs)))

\* s holds the documents in order and, after them, ends with usr.
InOrderAhead(s, docs, usr) ==
  LET p == AfterAll(s, docs, 1)
      u == Len(s) - Len(usr) + 1
  IN  p > 0 /\ u >= p /\ SubSeq(s, u, Len(s)) = usr

\* The documents of the hits, none when there is no result list.
RecalledDocs == IF hits.documents = <<>> THEN <<>> ELSE hits.documents[1]

\* C13: with nothing recalled the prompt block is the current user message
\* alone, with no memories header and no dangling delimiter; with something
\* recalled the block holds every recalled string, in recall order, ahead of
\* the current message.
C13_EmptyRecallGivesMessageOnly ==
  [][(Appended /\ Last(messages').role = "user") =>
       IF RecalledDocs = <<>>
       THEN Last(messages').content = user
       ELSE InOrderAhead(Last(messages').content, RecalledDocs, user)]_vars

\* The user-role messages of a transcript.
UsersIn(m) == Cardinality({i \in DOMAIN m : m[i].role = "user"})

\* C14: a turn started by a non-empty input appends exactly one user-role
\* message, the prompt block, whatever the model answers and whatever becomes
\* of the answer; the append changes no earlier message.
C14_OneUserMessagePerTurn ==
  [][/\ IsPrefix(messages, messages')
     /\ UsersIn(messages') # UsersIn(messages) =>
          messages' = Append(messages, [role |-> "user",
                                        content |-> PromptBlock(recalled, user)])
     /\ pc' \in {"input", "crashed"} =>
          UsersIn(messages') = Count(calls', "embed")]_vars

\* Two outcomes in one run: a rejected argument, then a response that names
\* no tool; each turn has appended its one user message.
C14_Witness ==
  /\ pc = "input" /\ turns = 2
  /\ console[1].label = "Arg error:"
  /\ console[2].label = "Assistant (invalid tool):"
  /\ UsersIn(messages) = 2

\* C15: requests go out one at a time, each answered before the next; the
\* first request of a turn, the embedding, goes out only when every earlier
\* turn has shown its message and made its appends, and every other request
\* belongs to the one turn in progress: turns do not overlap.
C15_OneRequestOneTurnAtATime ==
  [][/\ calls' # calls => \E c \in {"embed", "add", "query", "chat", "tool"} :
                             Issued(c)
     /\ Issued("embed") =>
          /\ Count(calls, "embed") = turns
          /\ UsersIn(messages) = turns
          /\ Len(console) = turns
          /\ calls # <<>> =>
               /\ Last(calls) \in {"chat", "tool"}
               /\ Last(calls) = "tool" => Last(messages).role = "tool"
     /\ (calls' # calls /\ ~Issued("embed")) =>
          /\ Count(calls, "embed") = turns + 1
          /\ Len(console) = turns]_vars

\* The second turn's embedding request has gone out, after a tool call turn.
C15_Witness ==
  /\ pc = "add" /\ turns = 1
  /\ calls = <<"embed", "add", "query", "chat", "tool", "embed">>

\* The four messages a turn can show.
Labels == {"Assistant:", "Assistant (invalid tool):", "Arg error:", "Tool result:"}

\* C16: once a turn that received a model response is over, it has shown the
\* user exactly one message, and that message is the assistant text, the
\* invalid-tool text, the argument error or the tool result: no failure to
\* interpret or validate the response passes without a message.
C16_EveryAnsweredTurnShowsOneMessage ==
  /\ \A i \in DOMAIN console : console[i].label \in Labels
  /\ pc \in {"input", "crashed"} => Len(console) = Count(calls, "chat")

\* C17: the content of a tool message, parsed back, is the pair of the tool
\* name and the result the tool returned, for every registered tool and every
\* result it can return.
C17_ToolReplyRoundTrip ==
  [][(Appended /\ Last(messages').role = "tool") =>
       LET parsed == JsonLoads(Last(messages').content) IN
       /\ name.v \in TOOLS
       /\ parsed.ok
       /\ parsed.val = JObj(<<[k |-> "tool", v |-> JStr(name.v)],
                              [k |-> "result", v |-> JStr(result)]>>)]_vars

\* Two tool messages are in the transcript: the echo of a backslash, then the
\* echo of a quote.
C17_Witness ==
  /\ pc = "input" /\ turns = 2
  /\ console = <<[label |-> "Tool result:", text |-> "\\"],
                 [label |-> "Tool result:", text |-> "\""]>>
  /\ Last(messages).role = "tool"
  /\ Last(messages).content = "{\"tool\": \"echo\", \"result\": \"\\\"\"}"

\* The roles of a transcript, in order.
Roles(m) == [i \in DOMAIN m |-> m[i].role]

\* C18: every tool-role message comes right after an assistant-role message
\* appended with it in the same turn, its name is a registered tool, and no
\* assistant message is followed by more than one tool message.
C18_ToolMessageFollowsItsAssistant ==
  [][/\ \A i \in DOMAIN messages' :
          messages'[i].role = "tool" =>
            /\ i > 1 /\ messages'[i - 1].role = "assistant"
            /\ messages'[i].name \in TOOLS
            /\ i < Len(messages') => messages'[i + 1].role # "tool"
     /\ (Appended /\ Last(messages').role = "tool") =>
          /\ Len(messages') = Len(messages) + 2
          /\ messages'[Len(messages) + 1] =
               [role |-> "assistant", content |-> assistant]
          /\ turns' = turns + 1]_vars

\* Two tool call turns, one after the other.
C18_Witness ==
  Roles(messages) = <<"system", "user", "assistant", "tool",
                      "user", "assistant", "tool">>

\* C19: whenever the loop waits for input, it has added as many memory
\* records as the transcript holds user-role messages.
C19_RecordsMatchUserMessages ==
  pc = "input" =>
    /\ Adds = UsersIn(messages)
    /\ Len(collection) = UsersIn(messages)

\* Two turns on the same input: two records with the same document, two user
\* messages.
C19_Witness ==
  /\ pc = "input" /\ turns = 2
  /\ Len(collection) = 2
  /\ collection[1].document = collection[2].document
  /\ UsersIn(messages) = 2

\* C20: the document of every record the loop writes is the stripped,
\* non-empty user input of the turn and its metadata role is "user"; the
\* store changes only by the add of a turn, never where a response, a prompt
\* block or a tool result is handled; no record is updated or deleted.
C20_OnlyUserInputsAreStored ==
  [][/\ IsPrefix(collection, collection')
     /\ collection' # collection =>
          /\ Issued("add") /\ Last(calls) = "embed"
          /\ messages' = messages /\ console' = console
          /\ Len(collection') = Len(collection) + 1
          /\ Last(collection').document = user
          /\ Last(collection').metadata = [role |-> "user"]
          /\ ~IsBlank(user)
          /\ \E line \in Lines : user = Strip(line)
          /\ Ch(user, 1) \notin Whitespace
          /\ Ch(user, Len(user)) \notin Whitespace]_vars

\* The second record is written after a tool call turn; the first is still
\* there.
C20_Witness ==
  /\ pc = "query" /\ turns = 1
  /\ Len(collection) = 2
  /\ Roles(messages) = <<"system", "user", "assistant", "tool">>

====
